---- MODULE Spec2Model ----
(***************************************************************************)
(* Model of build.ts: the command-line argument parser (parseArgs,         *)
(* parseValue, toCamelCase) and the build pipeline (buildProgram and the   *)
(* top-level runMain handlers).  Strings are sequences of one-character    *)
(* strings, so that slicing, splitting and pattern tests are computed as   *)
(* the code computes them.                                                 *)
(***************************************************************************)
EXTENDS Integers, Sequences, FiniteSets, TLC

VARIABLES args, i, config, stage, exists, outdir, entrypoints, request,
          thrown, failure, reached, exitCode

vars == <<args, i, config, stage, exists, outdir, entrypoints, request,
          thrown, failure, reached, exitCode>>

(* Bounds of the model. *)
MaxArgs == 3
MaxEntrypoints == 2

(* ---------------- string literals used by the code and the inputs ----- *)
DashDash == <<"-","-">>
DashDashNoDash == <<"-","-","n","o","-">>
StrTrue == <<"t","r","u","e">>
StrFalse == <<"f","a","l","s","e">>
TokHelp == <<"-","-","h","e","l","p">>
TokH == <<"-","h">>
KeyEntrypoints == <<"e","n","t","r","y","p","o","i","n","t","s">>
KeyOutdir == <<"o","u","t","d","i","r">>
KeyPlugins == <<"p","l","u","g","i","n","s">>
KeyMinify == <<"m","i","n","i","f","y">>
KeyTarget == <<"t","a","r","g","e","t">>
KeySourcemap == <<"s","o","u","r","c","e","m","a","p">>
KeyDefine == <<"d","e","f","i","n","e">>
StrBrowser == <<"b","r","o","w","s","e","r">>
StrLinked == <<"l","i","n","k","e","d">>
KeyNodeEnv == <<"p","r","o","c","e","s","s",".","e","n","v",".","N","O","D","E","_","E","N","V">>
StrProduction == <<"\"","p","r","o","d","u","c","t","i","o","n","\"">>
StrDist == <<"d","i","s","t">>
StrSrc == <<"s","r","c">>
NodeModules == <<"n","o","d","e","_","m","o","d","u","l","e","s">>
PluginTailwind == <<"t","a","i","l","w","i","n","d">>

(* ---------------- inputs: argument tokens, cwd, files on disk --------- *)
TokDefine == <<"-","-","d","e","f","i","n","e">>
TokNoDefine == <<"-","-","n","o","-","d","e","f","i","n","e">>
TokDefineA == <<"-","-","d","e","f","i","n","e",".","A","=","1">>
TokDefineB == <<"-","-","d","e","f","i","n","e",".","B","=","t","r","u","e">>
TokDefineList == <<"-","-","d","e","f","i","n","e","=","a",","," ","b">>
TokDefineAFlag == <<"-","-","d","e","f","i","n","e",".","A">>
TokNoDefineA == <<"-","-","n","o","-","d","e","f","i","n","e",".","A">>
TokOutdirStr == <<"-","-","o","u","t","d","i","r","=","o","u","t">>
TokOutdirNum == <<"-","-","o","u","t","d","i","r","=","1","2">>
TokBanner == <<"-","-","b","a","n","n","e","r","=","a","=","b">>
TokSourceMap == <<"-","-","s","o","u","r","c","e","-","m","a","p">>
TokValue == <<"1",".","5","0">>
Cwd == <<"/","w">>
FileIndex == <<"i","n","d","e","x",".","h","t","m","l">>
FileDep == <<"n","o","d","e","_","m","o","d","u","l","e","s","/","x",".","h","t","m","l">>
FileSub == <<"a","/","b",".","h","t","m","l">>

(* ---------------- JavaScript string primitives ------------------------ *)
LowerLetters == <<"a","b","c","d","e","f","g","h","i","j","k","l","m",
                  "n","o","p","q","r","s","t","u","v","w","x","y","z">>
UpperLetters == <<"A","B","C","D","E","F","G","H","I","J","K","L","M",
                  "N","O","P","Q","R","S","T","U","V","W","X","Y","Z">>
Digits == <<"0","1","2","3","4","5","6","7","8","9">>

IsLower(c) == \E j \in 1..26 : LowerLetters[j] = c
ToUpper(c) == UpperLetters[CHOOSE j \in 1..26 : LowerLetters[j] = c]
IsDigit(c) == \E j \in 1..10 : Digits[j] = c
DigitVal(c) == (CHOOSE j \in 1..10 : Digits[j] = c) - 1

(* String.prototype.startsWith, includes (one character / substring), slice *)
StartsWith(s, p) == Len(s) >= Len(p) /\ SubSeq(s, 1, Len(p)) = p
Includes(s, c) == \E j \in 1..Len(s) : s[j] = c
IncludesStr(s, sub) ==
  \E j \in 0..(Len(s) - Len(sub)) : SubSeq(s, j + 1, j + Len(sub)) = sub
Slice(s, n) == SubSeq(s, n + 1, Len(s))
IndexOf(s, c) == CHOOSE j \in 1..Len(s) : s[j] = c /\ \A m \in 1..(j - 1) : s[m] # c

(* String.prototype.split(sep): every piece *)
RECURSIVE Split(_, _)
Split(s, c) ==
  IF ~Includes(s, c) THEN <<s>>
  ELSE <<SubSeq(s, 1, IndexOf(s, c) - 1)>> \o Split(Slice(s, IndexOf(s, c)), c)

(* String.prototype.split(sep, limit): the first limit pieces, the rest dropped *)
SplitLimit(s, c, limit) ==
  LET pieces == Split(s, c)
  IN  SubSeq(pieces, 1, IF Len(pieces) < limit THEN Len(pieces) ELSE limit)

(* String.prototype.trim *)
RECURSIVE TrimStart(_)
TrimStart(s) == IF s # <<>> /\ s[1] = " " THEN TrimStart(Tail(s)) ELSE s
RECURSIVE TrimEnd(_)
TrimEnd(s) ==
  IF s # <<>> /\ s[Len(s)] = " " THEN TrimEnd(SubSeq(s, 1, Len(s) - 1)) ELSE s
Trim(s) == TrimEnd(TrimStart(s))

AllDigits(s) == \A j \in 1..Len(s) : IsDigit(s[j])

(* parseInt(value, 10) on a string of digits *)
RECURSIVE ParseInt(_)
ParseInt(s) ==
  IF s = <<>> THEN 0
  ELSE 10 * ParseInt(SubSeq(s, 1, Len(s) - 1)) + DigitVal(s[Len(s)])

(* the fraction digits of a number, without the trailing zeros that do not
   change it *)
RECURSIVE StripZeros(_)
StripZeros(s) ==
  IF s # <<>> /\ s[Len(s)] = "0" THEN StripZeros(SubSeq(s, 1, Len(s) - 1)) ELSE s

(* ---------------- values of the configuration object ------------------ *)
EmptyMap == [k \in {} |-> 0]

Val(kind, b, n, s, elems, props) ==
  [kind |-> kind, b |-> b, n |-> n, s |-> s, elems |-> elems, props |-> props]
BoolV(b) == Val("bool", b, 0, <<>>, <<>>, EmptyMap)
NumV(n, frac) == Val("num", FALSE, n, frac, <<>>, EmptyMap)
StrV(s) == Val("str", FALSE, 0, s, <<>>, EmptyMap)
ListV(elems, props) == Val("list", FALSE, 0, <<>>, elems, props)
MapV(props) == Val("map", FALSE, 0, <<>>, <<>>, props)

(* typeof v === "object" && v !== null: arrays and plain objects *)
IsObject(v) == v.kind \in {"list", "map"}

(* /^\d+$/ and /^\d*\.\d+$/ *)
IsIntText(s) == s # <<>> /\ AllDigits(s)
IsFloatText(s) ==
  /\ Includes(s, ".")
  /\ AllDigits(SubSeq(s, 1, IndexOf(s, ".") - 1))
  /\ IsIntText(Slice(s, IndexOf(s, ".")))

parseValue(value) ==
  IF value = StrTrue THEN BoolV(TRUE)
  ELSE IF value = StrFalse THEN BoolV(FALSE)
  ELSE IF IsIntText(value) THEN NumV(ParseInt(value), <<>>)
  ELSE IF IsFloatText(value)
    THEN NumV(ParseInt(SubSeq(value, 1, IndexOf(value, ".") - 1)),
              StripZeros(Slice(value, IndexOf(value, "."))))
  ELSE IF Includes(value, ",")
    THEN LET pieces == Split(value, ",")
         IN  ListV([j \in 1..Len(pieces) |-> Trim(pieces[j])], EmptyMap)
  ELSE StrV(value)

(* str.replace(/-([a-z])/g, (_, char) => char.toUpperCase()) *)
RECURSIVE toCamelCase(_)
toCamelCase(str) ==
  IF str = <<>> THEN <<>>
  ELSE IF str[1] = "-" /\ Len(str) >= 2 /\ IsLower(str[2])
    THEN <<ToUpper(str[2])>> \o toCamelCase(Slice(str, 2))
  ELSE <<str[1]>> \o toCamelCase(Tail(str))

(* ---------------- parseArgs ------------------------------------------- *)
(* a parser that keeps the first value of a key *)
SetKeyFirstWins(cfg, key, val) ==
  IF key \in DOMAIN cfg THEN cfg
  ELSE [k \in DOMAIN cfg \cup {key} |-> IF k = key THEN val ELSE cfg[k]]

(* config[key] = val *)
SetKey(cfg, key, val) ==
  [k \in DOMAIN cfg \cup {key} |-> IF k = key THEN val ELSE cfg[k]]

(* (config[parentKey] as Record)[childKey] = val, on an array or an object *)
SetChild(obj, childKey, val) ==
  [obj EXCEPT !.props = SetKey(obj.props, childKey, val)]

(* the standalone-flag test of the loop: no "=" and no value token after it *)
IsStandalone(argv, n) ==
  /\ ~Includes(argv[n], "=")
  /\ (n = Len(argv) \/ StartsWith(argv[n + 1], DashDash))

(* the key text and the value text of a --key=value or --key value flag *)
KeyText(argv, n) ==
  IF Includes(argv[n], "=") THEN SplitLimit(Slice(argv[n], 2), "=", 2)[1]
  ELSE Slice(argv[n], 2)
ValueText(argv, n) ==
  IF Includes(argv[n], "=") THEN SplitLimit(Slice(argv[n], 2), "=", 2)[2]
  ELSE IF n + 1 <= Len(argv) THEN argv[n + 1] ELSE <<>>

(* the assignment at the end of the loop body: nested or direct *)
Assign(cfg, key, value) ==
  IF Includes(key, ".")
    THEN LET parentKey == Split(key, ".")[1]
             childKey == Split(key, ".")[2]
         IN  IF parentKey # <<>> /\ childKey # <<>>
               THEN LET existing == IF parentKey \in DOMAIN cfg
                                      THEN cfg[parentKey] ELSE BoolV(FALSE)
                        obj == IF parentKey \in DOMAIN cfg /\ IsObject(existing)
                                 THEN existing ELSE MapV(EmptyMap)
                    IN  SetKey(cfg, parentKey, SetChild(obj, childKey, parseValue(value)))
               ELSE cfg
  ELSE SetKey(cfg, key, parseValue(value))

(* one iteration of the for loop, the i++ of the loop header included *)
LoopBody(cfg, argv, n) ==
  LET arg == argv[n]
  IN  IF ~StartsWith(arg, DashDash) THEN [config |-> cfg, i |-> n + 1]
      ELSE IF StartsWith(arg, DashDashNoDash)
        THEN [config |-> SetKey(cfg, toCamelCase(Slice(arg, 5)), BoolV(FALSE)),
              i |-> n + 1]
      ELSE IF IsStandalone(argv, n)
        THEN [config |-> SetKey(cfg, toCamelCase(Slice(arg, 2)), BoolV(TRUE)),
              i |-> n + 1]
      ELSE [config |-> Assign(cfg, toCamelCase(KeyText(argv, n)), ValueText(argv, n)),
            i |-> IF Includes(arg, "=") THEN n + 1 ELSE n + 2]

(* process.argv.includes("--help") || process.argv.includes("-h") *)
HelpRequested(argv) == \E n \in 1..Len(argv) : argv[n] = TokHelp \/ argv[n] = TokH

(* ---------------- buildProgram ---------------------------------------- *)
(* path.join(process.cwd(), name) and path.resolve(dir, name), on relative
   names without "." or ".." segments *)
PathJoin(dir, name) == dir \o <<"/">> \o name
PathResolve(dir, name) == PathJoin(PathJoin(Cwd, dir), name)

(* typeof cliConfig.outdir === "string" ? cliConfig.outdir : <cwd>/dist *)
OutdirOf(cliConfig) ==
  IF KeyOutdir \in DOMAIN cliConfig /\ cliConfig[KeyOutdir].kind = "str"
    THEN cliConfig[KeyOutdir].s
  ELSE PathJoin(Cwd, StrDist)

(* .map(a => path.resolve("src", a)).filter(dir => !dir.includes("node_modules")) *)
RECURSIVE FilterPaths(_)
FilterPaths(paths) ==
  IF paths = <<>> THEN <<>>
  ELSE IF IncludesStr(paths[1], NodeModules) THEN FilterPaths(Tail(paths))
  ELSE <<paths[1]>> \o FilterPaths(Tail(paths))
EntrypointsOf(found) ==
  FilterPaths([j \in 1..Len(found) |-> PathResolve(StrSrc, found[j])])

(* a spread written before the defaults: the defaults win *)
SpreadDefaultsWin(target, source) ==
  [k \in DOMAIN target \cup DOMAIN source |->
     IF k \in DOMAIN target THEN target[k] ELSE source[k]]

(* { ...source } applied to target: every own key of source is assigned *)
Spread(target, source) ==
  [k \in DOMAIN target \cup DOMAIN source |->
     IF k \in DOMAIN source THEN source[k] ELSE target[k]]

(* the object literal before ...cliConfig *)
Defaults(eps, dir) ==
  [k \in {KeyEntrypoints, KeyOutdir, KeyPlugins, KeyMinify, KeyTarget,
          KeySourcemap, KeyDefine} |->
     IF k = KeyEntrypoints THEN ListV(eps, EmptyMap)
     ELSE IF k = KeyOutdir THEN StrV(dir)
     ELSE IF k = KeyPlugins THEN ListV(<<PluginTailwind>>, EmptyMap)
     ELSE IF k = KeyMinify THEN BoolV(TRUE)
     ELSE IF k = KeyTarget THEN StrV(StrBrowser)
     ELSE IF k = KeySourcemap THEN StrV(StrLinked)
     ELSE MapV([c \in {KeyNodeEnv} |-> StrV(StrProduction)])]

(* the argument of Bun.build *)
BuildRequest(eps, dir, cliConfig) == Spread(Defaults(eps, dir), cliConfig)

(* error values; the fields a kind does not carry are empty *)
NoError ==
  [tag |-> "none", message |-> <<"", <<>>>>, originalError |-> "none",
   directory |-> <<>>, entrypoints |-> <<>>, outdir |-> <<>>, config |-> EmptyMap]

(* the error an effect of the platform file system fails with *)
PlatformErrorOf(error) ==
  [NoError EXCEPT !.tag = "PlatformError", !.originalError = error]

(* an exception thrown inside the generator: a defect, not a typed failure *)
DefectOf(error) ==
  [NoError EXCEPT !.tag = "Die", !.originalError = error]

CleanErrorOf(dir, error) ==
  [NoError EXCEPT !.tag = "CleanError",
                  !.message = <<"Failed to clean directory: ", dir>>,
                  !.directory = dir, !.originalError = error]

(* a BuildError that reports the merged request as its config *)
BuildErrorWithRequest(error, eps, dir, cliConfig) ==
  [NoError EXCEPT !.tag = "BuildError",
                  !.message = <<"Build failed", <<>>>>,
                  !.originalError = error, !.entrypoints = eps,
                  !.outdir = dir,
                  !.config = Spread(Defaults(eps, dir), cliConfig)]

BuildErrorOf(error, eps, dir, cliConfig) ==
  [NoError EXCEPT !.tag = "BuildError",
                  !.message = <<"Build failed", <<>>>>,
                  !.originalError = error, !.entrypoints = eps,
                  !.outdir = dir, !.config = cliConfig]

(* Effect.catchTag("CleanError", ...) then Effect.catchTag("BuildError", ...):
   log the message, then Effect.fail(error) with the error that was caught;
   any other failure passes through *)
TopLevel(error) == error

(* ---------------- inputs ---------------------------------------------- *)
Tokens == {TokDefine, TokNoDefine, TokDefineA, TokDefineB, TokDefineList,
           TokDefineAFlag, TokNoDefineA, TokOutdirStr, TokOutdirNum,
           TokBanner, TokSourceMap, TokValue, TokHelp}
Files == {FileIndex, FileDep, FileSub}
Errors == {"EACCES", "EIO"}

ArgVectors == UNION {[1..n -> Tokens] : n \in 0..MaxArgs}
Scans ==
  {f \in UNION {[1..n -> Files] : n \in 0..MaxEntrypoints} :
     \A a, b \in 1..Len(f) : a # b => f[a] # f[b]}

(* ---------------- the state machine ----------------------------------- *)
Init ==
  /\ args \in ArgVectors
  /\ i = 1
  /\ config = EmptyMap
  /\ stage = "Start"
  /\ exists = "unknown"
  /\ outdir = <<>>
  /\ entrypoints = <<>>
  /\ request = EmptyMap
  /\ thrown = "none"
  /\ failure = NoError
  /\ reached = NoError
  /\ exitCode = -1

(* --help / -h: usage text and process.exit(0) before anything else *)
ShowHelp ==
  /\ stage = "Start" /\ HelpRequested(args)
  /\ stage' = "HelpExit"
  /\ exitCode' = 0
  /\ UNCHANGED <<args, i, config, exists, outdir, entrypoints, request,
                 thrown, failure, reached>>

(* one iteration of the loop of parseArgs *)
ParseStep ==
  /\ stage = "Start" /\ ~HelpRequested(args)
  /\ i <= Len(args)
  /\ config' = LoopBody(config, args, i).config
  /\ i' = LoopBody(config, args, i).i
  /\ UNCHANGED <<args, stage, exists, outdir, entrypoints, request, thrown,
                 failure, reached, exitCode>>

(* parseArgs returns; outdir is chosen and fs.exists(outdir) is started *)
StartClean ==
  /\ stage = "Start" /\ ~HelpRequested(args)
  /\ i > Len(args)
  /\ outdir' = OutdirOf(config)
  /\ stage' = "Cleaning"
  /\ exists' = "pending"
  /\ UNCHANGED <<args, i, config, entrypoints, request, thrown, failure,
                 reached, exitCode>>

(* fs.exists fails: its PlatformError is not mapped *)
ExistsFail ==
  /\ stage = "Cleaning" /\ exists = "pending"
  /\ \E e \in Errors :
       /\ thrown' = e
       /\ failure' = PlatformErrorOf(e)
  /\ stage' = "Failed"
  /\ UNCHANGED <<args, i, config, exists, outdir, entrypoints, request,
                 reached, exitCode>>

(* fs.exists yields false: nothing to clean *)
ExistsAbsent ==
  /\ stage = "Cleaning" /\ exists = "pending"
  /\ exists' = "false"
  /\ stage' = "Discovering"
  /\ UNCHANGED <<args, i, config, outdir, entrypoints, request, thrown,
                 failure, reached, exitCode>>

(* fs.exists yields true: fs.remove(outdir, {recursive: true}) is started *)
ExistsPresent ==
  /\ stage = "Cleaning" /\ exists = "pending"
  /\ exists' = "true"
  /\ UNCHANGED <<args, i, config, stage, outdir, entrypoints, request,
                 thrown, failure, reached, exitCode>>

RemoveOk ==
  /\ stage = "Cleaning" /\ exists = "true"
  /\ stage' = "Discovering"
  /\ UNCHANGED <<args, i, config, exists, outdir, entrypoints, request,
                 thrown, failure, reached, exitCode>>

(* fs.remove fails: Effect.mapError to CleanError *)
RemoveFail ==
  /\ stage = "Cleaning" /\ exists = "true"
  /\ \E e \in Errors :
       /\ thrown' = e
       /\ failure' = CleanErrorOf(outdir, e)
  /\ stage' = "Failed"
  /\ UNCHANGED <<args, i, config, exists, outdir, entrypoints, request,
                 reached, exitCode>>

(* the scan returns; Bun.build is called with the merged request *)
ScanOk ==
  /\ stage = "Discovering"
  /\ \E found \in Scans :
       /\ entrypoints' = EntrypointsOf(found)
       /\ request' = BuildRequest(EntrypointsOf(found), outdir, config)
  /\ stage' = "Building"
  /\ UNCHANGED <<args, i, config, exists, outdir, thrown, failure, reached,
                 exitCode>>

(* scanSync throws inside the generator (the source root cannot be read) *)
ScanThrow ==
  /\ stage = "Discovering"
  /\ \E e \in Errors :
       /\ thrown' = e
       /\ failure' = DefectOf(e)
  /\ stage' = "Failed"
  /\ UNCHANGED <<args, i, config, exists, outdir, entrypoints, request,
                 reached, exitCode>>

BuildOk ==
  /\ stage = "Building"
  /\ stage' = "Reporting"
  /\ UNCHANGED <<args, i, config, exists, outdir, entrypoints, request,
                 thrown, failure, reached, exitCode>>

(* Bun.build rejects: the catch of Effect.tryPromise makes the BuildError *)
BuildThrow ==
  /\ stage = "Building"
  /\ \E e \in Errors :
       /\ thrown' = e
       /\ failure' = BuildErrorOf(e, entrypoints, outdir, config)
  /\ stage' = "Failed"
  /\ UNCHANGED <<args, i, config, exists, outdir, entrypoints, request,
                 reached, exitCode>>

(* the output table and the elapsed time are printed; runMain exits 0 *)
Report ==
  /\ stage = "Reporting"
  /\ stage' = "Done"
  /\ exitCode' = 0
  /\ UNCHANGED <<args, i, config, exists, outdir, entrypoints, request,
                 thrown, failure, reached>>

(* the catchTag handlers and runMain: the failure is reported, exit code 1 *)
HandleFailure ==
  /\ stage = "Failed" /\ exitCode = -1
  /\ reached' = TopLevel(failure)
  /\ exitCode' = 1
  /\ UNCHANGED <<args, i, config, stage, exists, outdir, entrypoints,
                 request, thrown, failure>>

Next ==
  \/ ShowHelp
  \/ ParseStep
  \/ StartClean
  \/ ExistsFail
  \/ ExistsAbsent
  \/ ExistsPresent
  \/ RemoveOk
  \/ RemoveFail
  \/ ScanOk
  \/ ScanThrow
  \/ BuildOk
  \/ BuildThrow
  \/ Report
  \/ HandleFailure

Spec == Init /\ [][Next]_vars

(* ---------------- properties ------------------------------------------ *)
ParseDone == stage = "Start" /\ ~HelpRequested(args) /\ i > Len(args)
Parsing == stage = "Start" /\ ~HelpRequested(args) /\ i <= Len(args)
RequestSent ==
  stage \in {"Building", "Reporting", "Done"} \/ failure.tag = "BuildError"

(* C1: without a help flag the stages are entered only in the order
   Cleaning, Discovering, Building, Reporting, Done, each at most once;
   Discovering and Building are not entered after a CleanError, Reporting is
   not entered after a BuildError, and Failed is entered only from Cleaning
   and from Building. *)
C1_StageOrder ==
  [][(~HelpRequested(args) /\ stage' # stage) =>
       /\ <<stage, stage'>> \in
            {<<"Start", "Cleaning">>, <<"Cleaning", "Discovering">>,
             <<"Discovering", "Building">>, <<"Building", "Reporting">>,
             <<"Reporting", "Done">>, <<"Cleaning", "Failed">>,
             <<"Building", "Failed">>}
       /\ failure.tag = "CleanError" => stage' \notin {"Discovering", "Building"}
       /\ failure.tag = "BuildError" => stage' # "Reporting"]_vars

(* C2 as stated: a BuildError carries the original error, the discovered
   entrypoints, the output directory and the full merged configuration that
   was handed to the bundling engine. *)
C2_MergedConfigInError ==
  failure.tag = "BuildError" =>
    /\ failure.originalError = thrown
    /\ failure.entrypoints = entrypoints
    /\ failure.outdir = outdir
    /\ failure.config = request

(* C2 amended: a BuildError carries the original error, the discovered
   entrypoints, the output directory chosen before cleaning, and the parsed
   CLI Configuration Map alone, without the defaults of the request. *)
C2_CliConfigInError ==
  failure.tag = "BuildError" =>
    /\ failure.originalError = thrown
    /\ failure.entrypoints = entrypoints
    /\ failure.outdir = outdir
    /\ failure.config = config

C2_Witness ==
  /\ failure.tag = "BuildError"
  /\ thrown = "EIO"
  /\ entrypoints # <<>>
  /\ DOMAIN config # {}
  /\ failure.config # request

(* C3: the build request is the defaults overridden shallowly by the CLI
   map: every key of the CLI map holds exactly the CLI value (a nested map
   replaces the default nested map wholesale), every other default key keeps
   its default value, and there are no other keys. *)
C3_ShallowOverride ==
  RequestSent =>
    /\ DOMAIN request =
         DOMAIN config \cup {KeyEntrypoints, KeyOutdir, KeyPlugins, KeyMinify,
                             KeyTarget, KeySourcemap, KeyDefine}
    /\ \A k \in DOMAIN config : request[k] = config[k]
    /\ KeyEntrypoints \notin DOMAIN config =>
         request[KeyEntrypoints] = ListV(entrypoints, EmptyMap)
    /\ KeyOutdir \notin DOMAIN config => request[KeyOutdir] = StrV(outdir)
    /\ KeyPlugins \notin DOMAIN config =>
         request[KeyPlugins] = ListV(<<PluginTailwind>>, EmptyMap)
    /\ KeyMinify \notin DOMAIN config => request[KeyMinify] = BoolV(TRUE)
    /\ KeyTarget \notin DOMAIN config => request[KeyTarget] = StrV(StrBrowser)
    /\ KeySourcemap \notin DOMAIN config =>
         request[KeySourcemap] = StrV(StrLinked)
    /\ KeyDefine \notin DOMAIN config =>
         request[KeyDefine] = MapV([c \in {KeyNodeEnv} |-> StrV(StrProduction)])

C3_Witness ==
  /\ stage = "Building"
  /\ KeyDefine \in DOMAIN config
  /\ config[KeyDefine].kind = "map"
  /\ KeyNodeEnv \notin DOMAIN request[KeyDefine].props
  /\ KeyOutdir \in DOMAIN config
  /\ request[KeyMinify] = BoolV(TRUE)

(* C4: during the argument scan, a top-level key that holds a nested map is
   never replaced by a scalar by a later token: it stays a nested map and
   keeps every child key it had. *)
C4_MapNeverOverwritten ==
  [][\A k \in DOMAIN config :
       config[k].kind = "map" =>
         /\ k \in DOMAIN config'
         /\ config'[k].kind = "map"
         /\ DOMAIN config[k].props \subseteq DOMAIN config'[k].props]_vars

(* C5: no key of the Configuration Map, top-level or child, contains a '.' *)
C5_NoDottedKeys ==
  \A k \in DOMAIN config :
    /\ ~Includes(k, ".")
    /\ \A c \in DOMAIN config[k].props : ~Includes(c, ".")

(* the top-level key a flag token writes, and the value of a non-dotted flag *)
IsFlag(argv, n) == StartsWith(argv[n], DashDash)
IsNegation(argv, n) == StartsWith(argv[n], DashDashNoDash)
IsAssignment(argv, n) ==
  IsFlag(argv, n) /\ ~IsNegation(argv, n) /\ ~IsStandalone(argv, n)
IsDottedAssignment(argv, n) ==
  /\ IsAssignment(argv, n)
  /\ Includes(toCamelCase(KeyText(argv, n)), ".")
FlagTarget(argv, n) ==
  IF IsNegation(argv, n) THEN toCamelCase(Slice(argv[n], 5))
  ELSE IF IsStandalone(argv, n) THEN toCamelCase(Slice(argv[n], 2))
  ELSE IF IsDottedAssignment(argv, n)
    THEN Split(toCamelCase(KeyText(argv, n)), ".")[1]
  ELSE toCamelCase(KeyText(argv, n))
FlagValue(argv, n) ==
  IF IsNegation(argv, n) THEN BoolV(FALSE)
  ELSE IF IsStandalone(argv, n) THEN BoolV(TRUE)
  ELSE parseValue(ValueText(argv, n))
WritesTo(argv, k) == {n \in 1..Len(argv) : IsFlag(argv, n) /\ FlagTarget(argv, n) = k}
LastWrite(argv, k) == CHOOSE n \in WritesTo(argv, k) : \A m \in WritesTo(argv, k) : m <= n

(* C6: non-dotted keys are last-write-wins in argument order: after the scan,
   when the last flag token that writes key k is a non-dotted flag, k holds
   the value of that token; in particular false when it is --no-k. *)
C6_LastWriteWins ==
  ParseDone =>
    \A n \in 1..Len(args) :
      (/\ IsFlag(args, n)
       /\ ~IsDottedAssignment(args, n)
       /\ n = LastWrite(args, FlagTarget(args, n))) =>
        /\ FlagTarget(args, n) \in DOMAIN config
        /\ config[FlagTarget(args, n)] = FlagValue(args, n)
        /\ IsNegation(args, n) => config[FlagTarget(args, n)] = BoolV(FALSE)

C6_Witness ==
  /\ ParseDone
  /\ Len(args) = 3
  /\ args[1] = TokDefine
  /\ args[2] \in {TokDefineList, TokDefineA}
  /\ args[3] = TokNoDefine
  /\ config[KeyDefine] = BoolV(FALSE)

(* C7: a dotted assignment --p.c=v (or --p.c v) adds child c to the nested
   map of p and keeps every earlier child; when p held no value or a value
   that is not a nested map, p becomes a map holding only the new child. *)
C7_DottedAccumulate ==
  [][(Parsing /\ IsDottedAssignment(args, i)) =>
       LET parentKey == Split(toCamelCase(KeyText(args, i)), ".")[1]
           childKey == Split(toCamelCase(KeyText(args, i)), ".")[2]
           child == parseValue(ValueText(args, i))
       IN  (parentKey # <<>> /\ childKey # <<>>) =>
             /\ parentKey \in DOMAIN config'
             /\ config'[parentKey] =
                  IF parentKey \in DOMAIN config /\ config[parentKey].kind = "map"
                    THEN MapV(SetKey(config[parentKey].props, childKey, child))
                    ELSE MapV([c \in {childKey} |-> child])]_vars

(* C8: every failure that ends a run reaches the top-level handler as a
   CleanError or a BuildError, and as the error value made at the failure
   site. *)
C8_TypedFailures ==
  (stage = "Failed" /\ exitCode = 1) =>
    /\ reached.tag \in {"CleanError", "BuildError"}
    /\ reached = failure

(* C9: for a token --k=v the key is the text between "--" and the first "=",
   and the value handed to Value Coercion is the whole text after that first
   "=", further "=" characters included. *)
C9_SplitAtFirstEquals ==
  [][(Parsing /\ IsFlag(args, i) /\ ~IsNegation(args, i) /\ Includes(args[i], "=")) =>
       config' = Assign(config,
                        toCamelCase(SubSeq(args[i], 3, IndexOf(args[i], "=") - 1)),
                        Slice(args[i], IndexOf(args[i], "=")))]_vars

(* C10: the directory the Workspace Cleaner checks and removes is the outdir
   of the build request, and the outdir of the BuildError context. *)
C10_CleanedIsRequestOutdir ==
  RequestSent =>
    /\ request[KeyOutdir] = StrV(outdir)
    /\ failure.tag = "BuildError" => failure.outdir = outdir
====
